---- MODULE Spec2Model ----
(***************************************************************************)
(* AlgoTrader-2.0: the automation controller (automated_trader.py), the    *)
(* dual-mode execution adapter and capital ledger (bybit_client.py), the   *)
(* trading engine (engine.py) and the trade store (db.py).                 *)
(*                                                                         *)
(* Money is modelled in integer units chosen so that round(x, 2) of        *)
(* calculate_margin is exact; None for a pnl / exit price is modelled as 0.*)
(***************************************************************************)
EXTENDS Integers, Sequences, FiniteSets, TLC

\* ------------------------------------------------------------------------
\* Bounds of the model
\* ------------------------------------------------------------------------
MaxOrders == 2
MaxApply == 1
MaxCycles == 2
MaxTicks == 2
MaxWorkers == 2
MaxSteps == 10

\* ------------------------------------------------------------------------
\* Program constants
\* ------------------------------------------------------------------------
Leverage == 20
TpPercent == 130
SlPercent == 90
DefaultCapital == 100
DefaultMargin == 5
\* times are in seconds
Day == 86400
SessionLimit == 3600
CooldownRounds == 60
CooldownSleep == 60
PollSleep == 30
BackoffSleep == 90
JoinTimeout == 10

Symbols == {"BTC", "ETH"}
Sides == {"Buy", "Sell"}
EntryPrices == {400}
\* the orders asked for: symbol, side, qty
Requests == {<<"BTC", "Buy", 1>>, <<"BTC", "Buy", 3>>, <<"BTC", "Sell", 1>>}
MarkPrices == {500}
PnLs == {-30, 5}

Max(a, b) == IF a >= b THEN a ELSE b

\* index of the first element of s satisfying P, 0 when there is none
FirstIdx(s, P(_)) ==
    IF \E i \in 1..Len(s) : P(s[i])
    THEN CHOOSE i \in 1..Len(s) : P(s[i]) /\ \A j \in 1..(i - 1) : ~P(s[j])
    ELSE 0

VARIABLES
    use_real,     \* BybitClient.use_real
    client,       \* BybitClient.client is not None
    file,         \* capital.json, section "virtual"
    realFile,     \* capital.json, section "real"
    scan,         \* the latest call of TradingEngine.run_once
    capMem,       \* BybitClient.capital["virtual"]
    walletMem,    \* BybitClient.virtual_wallet["virtual"]
    orders,       \* BybitClient._virtual_orders
    positions,    \* BybitClient._virtual_positions
    trades,       \* table trades of the Trade Store
    ms,           \* int(time.time() * 1000)
    mark,         \* last traded price on the exchange
    exPos,        \* exchange: open position size per symbol
    exId,         \* exchange: number of orders accepted
    exBrackets,   \* exchange: order ids with a TP/SL bracket
    applied,      \* number of calls of apply_pnl_to_capital
    last,         \* the latest operation, its arguments and result
    clock         \* datetime.now(timezone.utc), in seconds since the start

ledgerVars == <<use_real, client, file, realFile, scan, capMem, walletMem, orders,
                positions, trades, ms, mark, exPos, exId, exBrackets, applied,
                last, clock>>

VARIABLES
    zone,           \* the host's time zone: local time - UTC, in seconds
    settings,       \* AutomatedTrader: signal_interval, max_drawdown_limit,
                    \* max_daily_trades, max_signals (TOP_N_SIGNALS as
                    \* read by the constructor); top_n_signals: the same
                    \* setting as TradingEngine.get_settings reads it at
                    \* every scan
    cyc,            \* the latest pass of automation_cycle's loop body
    stats,          \* AutomatedTrader.stats["signals_generated"], -1 when
                    \* the dictionary has no such key
    last_run_time,  \* AutomatedTrader.last_run_time, -1 for None
    ncycles         \* number of passes of the loop body so far

cycleVars == <<zone, settings, cyc, stats, last_run_time, ncycles>>

VARIABLES
    is_running,         \* AutomatedTrader.is_running
    automation_thread,  \* AutomatedTrader.automation_thread, 0 for None
    workers,            \* the threads running automation_cycle
    caller,             \* the thread that calls start() and stop()
    stopAt,             \* per worker: the time of the latest stop() that
                        \* found it in the risk cooldown, -1 when none
    views               \* the threads of the UI inside update_settings
                        \* (upd) and get_status (rd), and the settings
                        \* the controller was given so far (seen)

threadVars == <<is_running, automation_thread, workers, caller, stopAt, views>>

traderVars == <<cycleVars, threadVars>>

vars == <<ledgerVars, traderVars>>

\* what the simulated adapter reads and writes: capital.json, its two copies
\* in memory, the order and position lists, the trade table
AdapterState ==
    [file |-> file, capMem |-> capMem, walletMem |-> walletMem,
     orders |-> orders, positions |-> positions, trades |-> trades]

\* ------------------------------------------------------------------------
\* capital.json
\* ------------------------------------------------------------------------
Ledger(c, a, u) == [capital |-> c, available |-> a, used |-> u]

\* json.dump of self.capital: the section holds capital/available/used
ToFile(l) == [capital |-> l.capital, available |-> l.available, used |-> l.used,
              keys |-> "all"]

\* json.dump of self.virtual_wallet: without the key capital when the wallet
\* was never loaded from the file
WalletToFile(w) ==
    [capital |-> w.capital, available |-> w.available, used |-> w.used,
     keys |-> IF w.full THEN "all" ELSE "no_capital"]

\* the section "real" of a capital.json that was never refreshed
NoRealLedger == ToFile(Ledger(0, 0, 0))

\* BybitClient.load_capital / _load_virtual_wallet: json.load of the file
FromFile(f) == Ledger(f.capital, f.available, f.used)

\* TradingEngine.save_capital: rewrites the section with capital only
engine_save_capital(f, data) ==
    [capital |-> data.capital, available |-> 0, used |-> 0,
     keys |-> "capital_only"]

\* BybitClient.calculate_margin
calculate_margin(qty, price, leverage) == (qty * price) \div leverage

\* ------------------------------------------------------------------------
\* Price lookup
\* ------------------------------------------------------------------------
AllowedMethods == {"get_orders", "get_open_orders", "get_positions",
                   "get_wallet_balance", "place_order", "amend_active_order",
                   "get_ticker", "get_instruments_info"}

\* BybitClient._send_request: {} unless the client exists and the method is
\* one of the allowed ones
send_request_reaches(method) == client /\ method \in AllowedMethods

\* BybitClient.get_kline: _send_request("kline", ...) through extract_response
get_kline(symbol) ==
    IF send_request_reaches("kline") THEN <<mark>> ELSE <<>>

\* BybitClient.get_chart_data: the candles' close prices
get_chart_data(symbol) == get_kline(symbol)

\* BybitClient.calculate_virtual_pnl
calculate_virtual_pnl(pos) ==
    LET candles == get_chart_data(pos.symbol) IN
    IF candles = <<>> THEN 0
    ELSE IF pos.side = "Buy"
         THEN (candles[Len(candles)] - pos.price) * pos.qty
         ELSE (pos.price - candles[Len(candles)]) * pos.qty

\* ------------------------------------------------------------------------
\* Trade Store
\* ------------------------------------------------------------------------
Trade(oid, symbol, side, qty, price, margin, status, virtual) ==
    [order_id |-> oid, symbol |-> symbol, side |-> side, qty |-> qty,
     entry_price |-> price, margin_usdt |-> margin, status |-> status,
     virtual |-> virtual, exit_price |-> 0, pnl |-> 0, timestamp |-> clock]

\* DatabaseManager.add_trade
add_trade(ts, t) == Append(ts, t)

\* DatabaseManager.get_trade_by_id: row index of the first match, 0 if none
get_trade_by_id(ts, oid) == FirstIdx(ts, LAMBDA t : t.order_id = oid)

\* DatabaseManager.close_trade
db_close_trade(ts, oid, exit_price, pnl) ==
    LET i == get_trade_by_id(ts, oid) IN
    IF i = 0 THEN ts
    ELSE [ts EXCEPT ![i].exit_price = exit_price, ![i].pnl = pnl,
                    ![i].status = "closed"]

\* ------------------------------------------------------------------------
\* Execution adapter, simulated
\* ------------------------------------------------------------------------
Opposite(side) == IF side = "Buy" THEN "Sell" ELSE "Buy"

Order(oid, kind, symbol, side, qty, price, margin) ==
    [order_id |-> oid, kind |-> kind, symbol |-> symbol, side |-> side,
     qty |-> qty, price |-> price, status |-> "open", margin |-> margin,
     create_time |-> clock]

Position(oid, symbol, side, qty, price, margin) ==
    [order_id |-> oid, symbol |-> symbol, side |-> side, qty |-> qty,
     price |-> price, margin |-> margin, status |-> "open", realized_pnl |-> 0]

\* run_once was not called yet. signals: what the scan fetched; notify: per
\* symbol, whether the notifier raised on the signal or on the trade;
\* outcomes: what the exchange answered to the orders of the scan; placed:
\* the symbols place_order was called for; raised: run_once raised; by: the
\* thread that called it; at: the time of the call
NoScan == [signals |-> <<>>, notify |-> <<>>, outcomes |-> <<>>, placed |-> {},
           raised |-> FALSE, by |-> "none", at |-> 0]

\* the record of the latest operation: its name, its result (ok; exc: it
\* raised), the order id it was about, the status of the trade it was asked
\* to close, for a placed order the available capital before it, and for a
\* call that went to the exchange what the exchange answered (status)
NoOp == [op |-> "init", ok |-> FALSE, exc |-> FALSE, oid |-> -1,
         tstat |-> "none", avail |-> 0, status |-> "none"]

Done(op, ok) == [NoOp EXCEPT !.op = op, !.ok = ok]

\* BybitClient.place_tp_sl_limit_orders, virtual branch: the two bracket
\* orders, which carry no key "margin"
place_tp_sl_limit_orders(symbol, side, entry_price, qty, oid) ==
    << Order(oid, "VTP", symbol, Opposite(side), qty,
             (entry_price * TpPercent) \div 100, 0),
       Order(oid, "VSL", symbol, Opposite(side), qty,
             (entry_price * SlPercent) \div 100, 0) >>

\* BybitClient.close_virtual_position from the state st: the position
\* closed (found), its pnl and order id, and the state it leaves
close_virtual_position(st, symbol) ==
    LET i == FirstIdx(st.positions,
                      LAMBDA p : p.symbol = symbol /\ p.status = "open") IN
    IF i = 0
    THEN [found |-> FALSE, pnl |-> 0, oid |-> -1, st |-> st]
    ELSE LET pos == st.positions[i]
             pnl == calculate_virtual_pnl(pos)
             w == [st.walletMem EXCEPT !.used = Max(@ - pos.margin, 0),
                                       !.available = @ + pos.margin + pnl]
             candles == get_chart_data(symbol)
         IN [found |-> TRUE, pnl |-> pnl, oid |-> pos.order_id,
             st |-> [st EXCEPT
                 !.positions = [@ EXCEPT ![i].status = "closed",
                                         ![i].realized_pnl = pnl],
                 !.walletMem = w,
                 !.file = WalletToFile(w),
                 !.trades = IF candles /= <<>>
                            THEN db_close_trade(@, pos.order_id,
                                                candles[Len(candles)], pnl)
                            ELSE @]]

\* a guard against the total capital instead of the available capital
InsufficientAgainstCapital(margin, available) == margin > capMem.capital

\* place_order, virtual branch, guard of a new order
InsufficientNew(margin, available) == margin > available

\* place_order, virtual branch, guard of a modification
InsufficientModify(margin_diff, available) == margin_diff > available

\* what place_order returns: the dictionary has a key "symbol" exactly when
\* an order was placed or modified (ok); exc: the call raised
OrderResult(op, ok, oid) ==
    [op |-> op, ok |-> ok, exc |-> FALSE, oid |-> oid, create_time |-> clock]

\* a refusal that comes after the open position of the symbol was closed
RefusedAfterClose(st, symbol) ==
    [st |-> close_virtual_position(st, symbol).st,
     res |-> OrderResult("place_order", FALSE, -1)]

\* place_order, virtual branch: the order is refused for want of capital, by
\* a return that comes before any write
Refused(st, symbol) ==
    [st |-> st, res |-> OrderResult("place_order", FALSE, -1)]

\* BybitClient.place_order, virtual branch, from the state st at the
\* millisecond now: the state it leaves (st) and what it returns (res)
place_order_virtual(st, symbol, side, qty, price, now) ==
    LET price_used == IF price = 0 THEN 1 ELSE price
        margin == calculate_margin(qty, price_used, Leverage)
        available_capital == st.capMem.available
        e == FirstIdx(st.orders, LAMBDA o : o.symbol = symbol /\ o.side = side
                                             /\ o.status = "open")
        refused == Refused(st, symbol)
    IN
    IF e /= 0
    THEN \* modify the existing order
         IF st.orders[e].kind /= "entry"
         THEN \* KeyError: a bracket order has no margin
              [st |-> st,
               res |-> [OrderResult("place_order", FALSE, -1) EXCEPT !.exc = TRUE]]
         ELSE LET margin_diff == margin - st.orders[e].margin
                  p == FirstIdx(st.positions,
                                LAMBDA q : q.order_id = st.orders[e].order_id)
                  cap == [st.capMem EXCEPT !.available = @ - margin_diff,
                                           !.used = @ + margin_diff]
              IN
              IF InsufficientModify(margin_diff, available_capital)
              THEN refused
              ELSE [st |-> [st EXCEPT
                        !.capMem = cap,
                        !.file = ToFile(cap),
                        !.orders = [@ EXCEPT ![e].qty = qty,
                                             ![e].price = price_used,
                                             ![e].margin = margin],
                        !.positions = IF p = 0 THEN @
                                      ELSE [@ EXCEPT ![p].qty = qty,
                                                     ![p].price = price_used,
                                                     ![p].margin = margin]],
                    res |-> [OrderResult("modify_order", TRUE,
                                         st.orders[e].order_id)
                               EXCEPT !.create_time = st.orders[e].create_time]]
    ELSE \* place a new order
         IF InsufficientNew(margin, available_capital)
         THEN refused
         ELSE LET closed == close_virtual_position(st, symbol)
                  pnl == IF closed.found THEN closed.pnl ELSE 0
                  order_id == now
                  cap == [st.capMem EXCEPT !.available = @ - margin + pnl,
                                           !.used = @ + margin]
              IN [st |-> [closed.st EXCEPT
                      !.capMem = cap,
                      !.file = ToFile(cap),
                      !.orders = Append(@, Order(order_id, "entry", symbol, side,
                                                 qty, price_used, margin))
                                 \o place_tp_sl_limit_orders(symbol, side,
                                                             price_used, qty,
                                                             order_id),
                      !.positions = Append(@, Position(order_id, symbol, side,
                                                       qty, price_used, margin)),
                      !.trades = add_trade(@, Trade(order_id, symbol, side, qty,
                                                    price_used, margin, "open",
                                                    TRUE))],
                  res |-> OrderResult("place_order", TRUE, order_id)]

\* BybitClient.monitor_virtual_orders: every open order becomes filled
monitor_virtual_orders(os) ==
    [k \in 1..Len(os) |-> IF os[k].status = "open"
                          THEN [os[k] EXCEPT !.status = "filled"] ELSE os[k]]

\* a guard that only looks for the trade, not at its status
NotFound(ts, i) == i = 0

\* close_virtual_trade / close_real_trade: the trade cannot be closed
NotClosable(ts, i) == i = 0 \/ ts[i].status /= "open"

\* BybitClient.close_virtual_trade from the state st: its result and the
\* state it leaves
close_virtual_trade(st, trade_id) ==
    LET i == get_trade_by_id(st.trades, trade_id)
        failed == [ok |-> FALSE, st |-> st]
    IN
    IF NotClosable(st.trades, i) THEN failed
    ELSE LET trade == st.trades[i]
             candles == get_chart_data(trade.symbol)
         IN
         IF candles = <<>> THEN failed
         ELSE LET exit_price == candles[Len(candles)]
                  pnl == IF trade.side = "Buy"
                         THEN (exit_price - trade.entry_price) * trade.qty
                         ELSE (trade.entry_price - exit_price) * trade.qty
                  margin == trade.margin_usdt
                  p == FirstIdx(st.positions,
                                LAMBDA q : q.order_id = trade.order_id
                                           /\ q.status = "open")
              IN [ok |-> TRUE,
                  st |-> [st EXCEPT
                      !.file = [@ EXCEPT !.used = Max(@ - margin, 0),
                                         !.available = @ + margin + pnl,
                                         !.keys = IF @ = "capital_only"
                                                  THEN "all" ELSE @],
                      !.trades = db_close_trade(@, trade.order_id, exit_price, pnl),
                      !.positions = IF p = 0 THEN @
                                    ELSE [@ EXCEPT ![p].status = "closed",
                                                   ![p].realized_pnl = pnl]]]

\* ------------------------------------------------------------------------
\* Execution adapter, real
\* ------------------------------------------------------------------------
PlaceOutcomes == {"api_error", "no_status", "Filled", "PartiallyFilled", "New",
                  "Rejected"}
CloseOutcomes == {"no_position", "order_failed", "closed", "partial",
                  "repoll_failed"}

\* place_order, real branch: the polled statuses that count as placed
OrderConfirmed(status) == status \in {"Filled", "PartiallyFilled", "New"}

\* place_order, real branch: the polled statuses for which the bracket is placed
BracketPlaced(status) == status \in {"PartiallyFilled", "Filled"}

\* what the real adapter reads and writes on the exchange
ExchangeState == [exPos |-> exPos, exId |-> exId, exBrackets |-> exBrackets]

\* the exchange: what its wallet endpoint answers while the positions pos
\* are open; the margin of an open position is not available
exchange_wallet(pos) ==
    LET open == {s \in Symbols : pos[s] /= 0}
        margin == calculate_margin(1, CHOOSE p \in EntryPrices : TRUE, Leverage)
    IN [totalEquity |-> DefaultCapital,
        availableBalance |-> DefaultCapital - Cardinality(open) * margin]

\* BybitClient.get_wallet_balance, real branch: the section "real" it writes
\* for the answer wallet_entry of the exchange
get_wallet_balance(wallet_entry) ==
    [capital |-> wallet_entry.totalEquity,
     available |-> wallet_entry.availableBalance,
     used |-> Max(wallet_entry.totalEquity - wallet_entry.availableBalance, 0),
     keys |-> "all"]

\* BybitClient.place_order, real branch, for one answer of the exchange: the
\* exchange state it leaves (ex) and what it returns (res)
place_order_real(ex, symbol, side, qty, price, outcome) ==
    [ex |-> [exPos |-> IF outcome \in {"Filled", "PartiallyFilled"}
                       THEN [ex.exPos EXCEPT ![symbol] = 1] ELSE ex.exPos,
             exId |-> IF outcome = "api_error" THEN ex.exId ELSE ex.exId + 1,
             exBrackets |-> IF OrderConfirmed(outcome) /\ BracketPlaced(outcome)
                            THEN ex.exBrackets \cup {ex.exId + 1}
                            ELSE ex.exBrackets],
     res |-> OrderResult("place_order_real", OrderConfirmed(outcome),
                         IF outcome = "api_error" THEN -1 ELSE ex.exId + 1)]

\* BybitClient.close_real_position: what the exchange answered to its
\* calls, "none" when it returned before any call
close_real_position_answer(symbol, outcome) ==
    IF ~client THEN "none"
    ELSE IF exPos[symbol] = 0 THEN "no_position"
    ELSE outcome

\* BybitClient.close_real_position: result for one answer of the exchange
close_real_position_ok(symbol, outcome) ==
    /\ client
    /\ exPos[symbol] /= 0
    /\ outcome \in {"closed", "repoll_failed"}

\* BybitClient.close_real_position: the exchange position it leaves
close_real_position_pos(symbol, outcome) ==
    IF client /\ exPos[symbol] /= 0 /\ outcome = "closed"
    THEN [exPos EXCEPT ![symbol] = 0] ELSE exPos

\* BybitClient.close_real_trade: result for one answer of the exchange
close_real_trade_ok(trade_id, outcome) ==
    LET i == get_trade_by_id(trades, trade_id) IN
    IF NotClosable(trades, i) THEN FALSE
    ELSE close_real_position_ok(trades[i].symbol, outcome)

\* BybitClient.close_real_trade: what the exchange answered to the calls of
\* close_real_position, "none" when the close returned before any call
close_real_trade_answer(trade_id, outcome) ==
    LET i == get_trade_by_id(trades, trade_id) IN
    IF NotClosable(trades, i) THEN "none"
    ELSE close_real_position_answer(trades[i].symbol, outcome)

\* BybitClient.close_real_trade: the exchange position it leaves
close_real_trade_pos(trade_id, outcome) ==
    LET i == get_trade_by_id(trades, trade_id) IN
    IF NotClosable(trades, i) THEN exPos
    ELSE close_real_position_pos(trades[i].symbol, outcome)

\* ------------------------------------------------------------------------
\* TradingEngine: capital and close
\* ------------------------------------------------------------------------
\* TradingEngine.apply_pnl_to_capital for a virtual trade: load_capital,
\* capital += pnl, save_capital
apply_pnl_to_capital(f, pnl) ==
    engine_save_capital(f, [capital |-> (IF f.keys = "no_capital" THEN 0
                                         ELSE f.capital) + pnl])

TradeStatus(trade_id) ==
    LET i == get_trade_by_id(trades, trade_id) IN
    IF i = 0 THEN "missing" ELSE trades[i].status

\* TradingEngine.close_trade: the mode it dispatches on ("none": not found)
close_trade_mode(trade_id, is_virtual) ==
    LET i == get_trade_by_id(trades, trade_id) IN
    IF is_virtual /= "none" THEN is_virtual
    ELSE IF i = 0 THEN "none"
    ELSE IF trades[i].virtual THEN "virtual" ELSE "real"

\* ------------------------------------------------------------------------
\* Operations of the adapter and the engine
\* ------------------------------------------------------------------------
TradeIds == {trades[i].order_id : i \in 1..Len(trades)} \cup {-1}

adapterVars == <<file, capMem, walletMem, orders, positions, trades>>
exchangeVars == <<exPos, exId, exBrackets>>

\* the variables take the values of the adapter state st
SetAdapter(st) ==
    /\ file' = st.file
    /\ capMem' = st.capMem
    /\ walletMem' = st.walletMem
    /\ orders' = st.orders
    /\ positions' = st.positions
    /\ trades' = st.trades

\* the variables take the values of the exchange state ex
SetExchange(ex) ==
    /\ exPos' = ex.exPos
    /\ exId' = ex.exId
    /\ exBrackets' = ex.exBrackets

\* the latest operation is the call that returned res
Returned(res) ==
    [NoOp EXCEPT !.op = res.op, !.ok = res.ok, !.exc = res.exc, !.oid = res.oid]

\* the order modifies an open order, or there is room for a new one
OrderFits(symbol, side) ==
    \/ Len(positions) < MaxOrders
    \/ \E k \in 1..Len(orders) :
           /\ orders[k].symbol = symbol /\ orders[k].side = side
           /\ orders[k].status = "open"

\* place_order; dt: the milliseconds since the previous order id was made
PlaceOrder(symbol, side, qty, price, dt) ==
    /\ IF use_real /\ client
       THEN /\ exId < MaxOrders
            /\ \E outcome \in PlaceOutcomes :
                   LET r == place_order_real(ExchangeState, symbol, side, qty,
                                             price, outcome)
                   IN /\ SetExchange(r.ex)
                      /\ last' = [Returned(r.res) EXCEPT !.status = outcome]
            /\ UNCHANGED <<adapterVars, ms>>
       ELSE /\ OrderFits(symbol, side)
            /\ LET r == place_order_virtual(AdapterState, symbol, side, qty,
                                            price, ms + dt)
               IN /\ SetAdapter(r.st)
                  /\ last' = [Returned(r.res) EXCEPT !.avail = file.available]
                  /\ ms' = IF r.res.op = "place_order" /\ r.res.ok
                           THEN ms + dt ELSE ms
            /\ UNCHANGED exchangeVars
    /\ UNCHANGED <<use_real, client, realFile, scan, mark, applied, clock,
                   traderVars>>

CloseVirtualPosition(symbol) ==
    LET r == close_virtual_position(AdapterState, symbol) IN
    /\ SetAdapter(r.st)
    /\ last' = [Done("close_virtual_position", r.found) EXCEPT !.oid = r.oid]
    /\ UNCHANGED <<use_real, client, realFile, scan, ms, mark, exchangeVars,
                   applied, clock, traderVars>>

CloseVirtualTrade(trade_id) ==
    LET r == close_virtual_trade(AdapterState, trade_id) IN
    /\ SetAdapter(r.st)
    /\ last' = [Done("close_virtual_trade", r.ok) EXCEPT !.oid = trade_id,
                    !.tstat = TradeStatus(trade_id)]
    /\ UNCHANGED <<use_real, client, realFile, scan, ms, mark, exchangeVars,
                   applied, clock, traderVars>>

CloseRealPosition(symbol) ==
    \E outcome \in CloseOutcomes :
        /\ exPos' = close_real_position_pos(symbol, outcome)
        /\ last' = [Done("close_real_position",
                         close_real_position_ok(symbol, outcome))
                        EXCEPT !.status = close_real_position_answer(symbol,
                                                                     outcome)]
        /\ UNCHANGED <<use_real, client, realFile, scan, adapterVars, ms, mark,
                       exId, exBrackets, applied, clock, traderVars>>

\* get_wallet_balance in real mode; answered: the wallet endpoint answered
GetWalletBalance ==
    /\ use_real
    /\ \E answered \in BOOLEAN :
           /\ realFile' = IF client /\ answered
                          THEN get_wallet_balance(exchange_wallet(exPos))
                          ELSE realFile
           /\ last' = Done("get_wallet_balance", client /\ answered)
    /\ UNCHANGED <<use_real, client, scan, adapterVars, ms, mark, exchangeVars,
                   applied, clock, traderVars>>

\* apply_pnl_to_capital for a trade that is not virtual
ApplyPnlToRealCapital(pnl) ==
    /\ applied < MaxApply
    /\ applied' = applied + 1
    /\ realFile' = apply_pnl_to_capital(realFile, pnl)
    /\ last' = Done("apply_pnl_to_capital", TRUE)
    /\ UNCHANGED <<use_real, client, scan, adapterVars, ms, mark, exchangeVars,
                   clock, traderVars>>

CloseRealTrade(trade_id) ==
    \E outcome \in CloseOutcomes :
        /\ exPos' = close_real_trade_pos(trade_id, outcome)
        /\ last' = [Done("close_real_trade", close_real_trade_ok(trade_id, outcome))
                        EXCEPT !.oid = trade_id, !.tstat = TradeStatus(trade_id),
                               !.status = close_real_trade_answer(trade_id,
                                                                  outcome)]
        /\ UNCHANGED <<use_real, client, realFile, scan, adapterVars, ms, mark,
                       exId, exBrackets, applied, clock, traderVars>>

EngineCloseTrade(trade_id, is_virtual) ==
    LET mode == close_trade_mode(trade_id, is_virtual) IN
    \E outcome \in CloseOutcomes :
        LET r == close_virtual_trade(AdapterState, trade_id) IN
        /\ SetAdapter(IF mode = "virtual" THEN r.st ELSE AdapterState)
        /\ exPos' = IF mode = "real" THEN close_real_trade_pos(trade_id, outcome)
                    ELSE exPos
        /\ last' = [Done("close_trade",
                         CASE mode = "virtual" -> r.ok
                           [] mode = "real" -> close_real_trade_ok(trade_id, outcome)
                           [] OTHER -> FALSE)
                        EXCEPT !.oid = trade_id, !.tstat = TradeStatus(trade_id),
                               !.status = IF mode = "real"
                                          THEN close_real_trade_answer(trade_id,
                                                                       outcome)
                                          ELSE "none"]
        /\ UNCHANGED <<use_real, client, realFile, scan, ms, mark, exId, exBrackets,
                       applied, clock, traderVars>>

ApplyPnlToCapital(pnl) ==
    /\ applied < MaxApply
    /\ applied' = applied + 1
    /\ file' = apply_pnl_to_capital(file, pnl)
    /\ last' = Done("apply_pnl_to_capital", TRUE)
    /\ UNCHANGED <<use_real, client, realFile, scan, capMem, walletMem, orders,
                   positions, trades, ms, mark, exchangeVars, clock,
                   traderVars>>

MonitorVirtualOrders ==
    /\ orders' = monitor_virtual_orders(orders)
    /\ last' = Done("monitor_virtual_orders", TRUE)
    /\ UNCHANGED <<use_real, client, realFile, scan, file, capMem, walletMem,
                   positions, trades, ms, mark, exchangeVars, applied, clock,
                   traderVars>>

\* ------------------------------------------------------------------------
\* Initial states: BybitClient.__init__ over a capital.json and a trade table
\* left by earlier runs
\* ------------------------------------------------------------------------
InitFiles == {ToFile(Ledger(DefaultCapital, DefaultCapital, 0)),
              ToFile(Ledger(DefaultCapital, 40, 60))}

ClosedTrade(virtual) ==
    [Trade(0, "BTC", "Buy", 1, 400, 20, "closed", virtual)
       EXCEPT !.exit_price = 500, !.pnl = 100]

InitLedger ==
    /\ clock = 0
    /\ use_real \in BOOLEAN
    /\ client \in IF use_real THEN BOOLEAN ELSE {FALSE}
    /\ file \in InitFiles
    /\ realFile = NoRealLedger
    /\ scan = NoScan
    /\ capMem = FromFile(file)
    /\ walletMem = IF ~use_real
                   THEN [capital |-> file.capital, available |-> file.available,
                         used |-> file.used, full |-> TRUE]
                   ELSE [capital |-> 0, available |-> 0, used |-> 0,
                         full |-> FALSE]
    /\ orders = <<>>
    /\ positions = <<>>
    /\ trades \in {<<>>, <<ClosedTrade(~use_real)>>}
    /\ ms = 1
    /\ mark \in MarkPrices
    /\ exPos \in IF use_real /\ client
                 THEN {[s \in Symbols |-> 0], [s \in Symbols |-> IF s = "BTC" THEN 1 ELSE 0]}
                 ELSE {[s \in Symbols |-> 0]}
    /\ exId = 0
    /\ exBrackets = {}
    /\ applied = 0
    /\ last = NoOp

\* virtual mode over an empty trade table
InitVirtual == InitLedger /\ ~use_real /\ trades = <<>>

\* AutomatedTrader.__init__ with the default settings, before any cycle
NoCycle ==
    [result |-> "none", gate |-> FALSE, signals |-> <<>>, valid |-> {},
     admitted |-> <<>>, raised |-> {}]

DefaultSettings ==
    [signal_interval |-> 3600, max_drawdown_limit |-> 20,
     max_daily_trades |-> 50, max_signals |-> 5, top_n_signals |-> 5]

\* the attributes of the controller that update_settings assigns and
\* get_status reads, in the order of both
FieldOrder ==
    <<"signal_interval", "max_signals", "max_drawdown_limit",
      "max_daily_trades">>

\* the "settings" of get_status when every attribute holds the value of s
Snapshot(s) == [k \in 1..Len(FieldOrder) |-> s[FieldOrder[k]]]

\* no thread of the UI is inside update_settings or get_status
NoViews ==
    [upd |-> [pc |-> 0, new |-> DefaultSettings],
     rd |-> [pc |-> 0, snap |-> <<>>],
     seen |-> {Snapshot(DefaultSettings)}]

\* a thread of automation_cycle: not created yet
Unborn == [state |-> "unborn", timer |-> 0, rounds |-> 0, start_time |-> -1]

Idle == [state |-> "idle", timer |-> 0]

InitThreads ==
    /\ is_running = FALSE
    /\ automation_thread = 0
    /\ workers = [w \in 1..MaxWorkers |-> Unborn]
    /\ caller = Idle
    /\ stopAt = [w \in 1..MaxWorkers |-> -1]
    /\ views = NoViews

InitTrader ==
    /\ zone = 0
    /\ settings = DefaultSettings
    /\ cyc = NoCycle
    /\ stats = 0
    /\ last_run_time = -1
    /\ ncycles = 0
    /\ InitThreads

NextVirtual ==
    \/ \E r \in Requests, price \in EntryPrices, dt \in 0..1 :
           PlaceOrder(r[1], r[2], r[3], price, dt)
    \/ \E symbol \in Symbols : CloseVirtualPosition(symbol)
    \/ \E trade_id \in TradeIds : CloseVirtualTrade(trade_id)
    \/ MonitorVirtualOrders

\* a controller that was never started, over the simulated adapter
InitSimulated == InitVirtual /\ InitTrader

\* the simulated adapter: orders and closes
Spec == InitSimulated /\ [][NextVirtual]_vars

NextLedger ==
    \/ NextVirtual
    \/ \E pnl \in PnLs : ApplyPnlToCapital(pnl)

\* every operation that writes the virtual ledger
SpecLedger == InitSimulated /\ [][NextLedger]_vars

NextClose ==
    \/ \E r \in Requests, price \in EntryPrices, dt \in 0..1 :
           PlaceOrder(r[1], r[2], r[3], price, dt)
    \/ \E trade_id \in TradeIds : CloseVirtualTrade(trade_id)
    \/ \E trade_id \in TradeIds : CloseRealTrade(trade_id)
    \/ \E symbol \in Symbols : CloseRealPosition(symbol)
    \/ \E trade_id \in TradeIds, is_virtual \in {"none", "virtual", "real"} :
           EngineCloseTrade(trade_id, is_virtual)

\* a trade row of the insert loop of automation_cycle in real mode
OpenRealTrade == Trade(0, "BTC", "Buy", 0, 0, DefaultMargin, "open", FALSE)

\* real mode with an exchange client: the section "real" as an earlier run
\* left it
InitReal ==
    /\ clock = 0
    /\ use_real = TRUE
    /\ client = TRUE
    /\ file \in InitFiles
    /\ capMem = FromFile(file)
    /\ walletMem = [capital |-> 0, available |-> 0, used |-> 0, full |-> FALSE]
    /\ orders = <<>>
    /\ positions = <<>>
    /\ trades \in {<<>>, <<OpenRealTrade>>}
    /\ ms = 1
    /\ mark \in MarkPrices
    /\ exPos \in {[s \in Symbols |-> 0],
                  [s \in Symbols |-> IF s = "BTC" THEN 1 ELSE 0]}
    /\ realFile \in {NoRealLedger, get_wallet_balance(exchange_wallet(exPos))}
    /\ scan = NoScan
    /\ exId = 0
    /\ exBrackets = {}
    /\ applied = 0
    /\ last = NoOp
    /\ InitTrader

NextReal ==
    \/ \E r \in Requests, price \in EntryPrices :
           PlaceOrder(r[1], r[2], r[3], price, 1)
    \/ \E symbol \in Symbols : CloseRealPosition(symbol)
    \/ \E trade_id \in TradeIds : CloseRealTrade(trade_id)
    \/ GetWalletBalance
    \/ \E pnl \in PnLs : ApplyPnlToRealCapital(pnl)

\* the real adapter and the section "real" of capital.json
SpecReal == InitReal /\ [][NextReal]_vars

\* DatabaseManager.close_trade called on the Trade Store
DbCloseTrade(order_id, exit_price, pnl) ==
    /\ trades' = db_close_trade(trades, order_id, exit_price, pnl)
    /\ last' = [Done("db_close_trade", get_trade_by_id(trades, order_id) /= 0)
                    EXCEPT !.oid = order_id, !.tstat = TradeStatus(order_id)]
    /\ UNCHANGED <<use_real, client, realFile, scan, file, capMem, walletMem,
                   orders, positions, ms, mark, exchangeVars, applied, clock,
                   traderVars>>

NextStore ==
    \/ \E r \in Requests, price \in EntryPrices, dt \in 0..1 :
           PlaceOrder(r[1], r[2], r[3], price, dt)
    \/ \E order_id \in TradeIds, exit_price \in MarkPrices, pnl \in PnLs :
           DbCloseTrade(order_id, exit_price, pnl)

\* a controller that was never started, over the adapter in either mode
InitEither == InitLedger /\ InitTrader

\* the Trade Store under orders and closes
SpecStore == InitEither /\ [][NextStore]_vars

\* closing trades, in either mode
SpecClose == InitEither /\ [][NextClose]_vars

\* ------------------------------------------------------------------------
\* Risk gate
\* ------------------------------------------------------------------------
RiskTradeLimit == 1000
TodayTradeLimit == 500

Min(a, b) == IF a <= b THEN a ELSE b

\* DatabaseManager.get_trades(limit): the newest rows, newest first; the
\* table is kept in the order of the rows' timestamps
get_trades(ts, limit) ==
    LET n == Len(ts) IN [i \in 1..Min(n, limit) |-> ts[n + 1 - i]]

\* sorted(trades, key=timestamp) of rows that are newest first
sorted_by_timestamp(rows) ==
    [i \in 1..Len(rows) |-> rows[Len(rows) + 1 - i]]

\* the UTC calendar day of a time, and the calendar day on the host's clock
utc_date(t) == t \div Day
local_date(t) == (t + zone) \div Day

\* check_risk_limits: the loop that extends the equity curve by the running
\* sum of the pnl of rows[lo..hi], in this order (the curve so far is never
\* empty)
RECURSIVE equity_curve(_, _, _, _)
equity_curve(curve, rows, lo, hi) ==
    IF Len(curve) = 0 \/ lo > hi THEN curve
    ELSE IF lo = hi THEN Append(curve, curve[Len(curve)] + rows[lo].pnl)
    ELSE LET mid == (lo + hi) \div 2 IN
         equity_curve(equity_curve(curve, rows, lo, mid), rows, mid + 1, hi)

\* a drawdown in percent is kept as the fraction 100 * num / den
Fraction(num, den) == [num |-> num, den |-> den]

\* one step of the walk at the equity e: the running peak and the largest
\* drawdown so far; the drawdown is 0 where the peak is not positive
drawdown_step(acc, e) ==
    LET pk == Max(acc.peak, e)
        dd == IF pk <= 0 THEN Fraction(0, 1) ELSE Fraction(pk - e, pk)
    IN [peak |-> pk,
        best |-> IF dd.num * acc.best.den > acc.best.num * dd.den
                 THEN dd ELSE acc.best]

\* the walk over curve[lo..hi], in this order (the fraction so far never has
\* the denominator 0)
RECURSIVE drawdown_walk(_, _, _, _)
drawdown_walk(acc, curve, lo, hi) ==
    IF acc.best.den = 0 \/ lo > hi THEN acc
    ELSE IF lo = hi THEN drawdown_step(acc, curve[lo])
    ELSE LET mid == (lo + hi) \div 2 IN
         drawdown_walk(drawdown_walk(acc, curve, lo, mid), curve, mid + 1, hi)

\* utils.calculate_drawdown: the maximum drawdown of the curve
calculate_drawdown(curve) ==
    drawdown_walk([peak |-> curve[1], best |-> Fraction(0, 1)],
                  curve, 1, Len(curve)).best

\* a drawdown in percent against a limit in percent
AtLeast(drawdown, limit) == drawdown.num * 100 >= limit * drawdown.den

\* check_risk_limits: max_drawdown >= self.max_drawdown_limit
DrawdownExceeded(max_drawdown, limit) == AtLeast(max_drawdown, limit)

\* json of capital.json: virtual.get("available", default)
available_or(f, default) ==
    IF f.keys = "capital_only" THEN default ELSE f.available

\* AutomatedTrader.get_today_trades at the time now
get_today_trades(ts, now) ==
    LET rows == get_trades(ts, TodayTradeLimit) IN
    {i \in 1..Len(rows) : utc_date(rows[i].timestamp) = local_date(now)}

\* check_risk_limits: len(today_trades) >= self.max_daily_trades
DailyLimitReached(count, limit) == count >= limit

\* AutomatedTrader.check_risk_limits at the time now
check_risk_limits(ts, f, now) ==
    LET rows == get_trades(ts, RiskTradeLimit)
        capital == available_or(f, DefaultCapital)
        sorted_trades == sorted_by_timestamp(rows)
        curve == equity_curve(<<capital>>, sorted_trades, 1, Len(sorted_trades))
        max_drawdown == calculate_drawdown(curve)
    IN IF DrawdownExceeded(max_drawdown, settings.max_drawdown_limit) THEN FALSE
       ELSE IF DailyLimitReached(Cardinality(get_today_trades(ts, now)),
                                 settings.max_daily_trades) THEN FALSE
       ELSE TRUE

\* the risk gate is asked at the time clock
CheckRiskLimits ==
    /\ last' = Done("check_risk_limits", check_risk_limits(trades, file, clock))
    /\ UNCHANGED <<use_real, client, realFile, scan, adapterVars, ms, mark,
                   exchangeVars, applied, clock, traderVars>>

\* trade tables left by earlier sessions: closed rows of day 0, each with its
\* pnl, oldest first
HistoryPnls == {-20, -10, 25}

ClosedRow(p) ==
    [order_id |-> 0, symbol |-> "BTC", side |-> "Buy", qty |-> 1,
     entry_price |-> 400, margin_usdt |-> 20, status |-> "closed",
     virtual |-> TRUE, exit_price |-> 500, pnl |-> p, timestamp |-> 0]

ShortHistories ==
    UNION {[1..n -> {ClosedRow(p) : p \in HistoryPnls}] : n \in 0..3}

\* a loss followed by more break-even trades than the gate reads
LongHistory ==
    [i \in 1..(RiskTradeLimit + 1) |-> IF i = 1 THEN ClosedRow(-30) ELSE ClosedRow(0)]

InitRisk ==
    /\ clock \in {0, Day}
    /\ use_real = FALSE
    /\ client = FALSE
    /\ file \in InitFiles
    /\ realFile = NoRealLedger
    /\ scan = NoScan
    /\ capMem = FromFile(file)
    /\ walletMem = [capital |-> file.capital, available |-> file.available,
                    used |-> file.used, full |-> TRUE]
    /\ orders = <<>>
    /\ positions = <<>>
    /\ trades \in ShortHistories \cup {LongHistory}
    /\ ms = 1
    /\ mark \in MarkPrices
    /\ exPos = [s \in Symbols |-> 0]
    /\ exId = 0
    /\ exBrackets = {}
    /\ applied = 0
    /\ last = NoOp
    /\ zone = 0
    /\ settings \in {[DefaultSettings EXCEPT !.max_drawdown_limit = l] :
                        l \in {20, 25}}
    /\ cyc = NoCycle
    /\ stats = 0
    /\ last_run_time = -1
    /\ ncycles = 0
    /\ InitThreads

NextRisk == CheckRiskLimits

\* the risk gate over trade tables of earlier sessions
SpecRisk == InitRisk /\ [][NextRisk]_vars

\* ------------------------------------------------------------------------
\* One pass of the automation loop
\* ------------------------------------------------------------------------
\* a signal of the signal source; margin_usdt 0: the source gave none
Signal(symbol, side, qty, entry, margin_usdt) ==
    [Symbol |-> symbol, Side |-> side, Qty |-> qty, Entry |-> entry,
     margin_usdt |-> margin_usdt, margin_type |-> "float"]

SigA == Signal("BTC", "Buy", 3, 400, 60)
SigB == Signal("ETH", "Buy", 3, 400, 60)
SigC == Signal("ETH", "Buy", 1, 400, 0)

\* what one scan of the signal source returns, in its order
SignalBatches == {<<>>, <<SigA>>, <<SigA, SigB>>, <<SigC, SigA>>}

\* what get_symbols returns
TradableSets == {{"BTC", "ETH"}, {"BTC"}}

\* run_once: enhanced["margin_usdt"] = enhanced.get("margin_usdt") or 5.0
enhance(sig) ==
    [sig EXCEPT !.margin_usdt = IF @ = 0 THEN DefaultMargin ELSE @]

\* run_once, step 4, after place_order returned r for the signal sig at the
\* millisecond now: the trade row, unless the result or the signal lacks a
\* field
record_order(w, sig, r, now) ==
    LET placed == r.res.op = "place_order" /\ r.res.ok
        missing == sig.Qty = 0 \/ sig.margin_usdt = 0
        row == [Trade(r.res.oid, sig.Symbol, sig.Side, sig.Qty,
                      IF sig.Entry = 0 THEN 1 ELSE sig.Entry,
                      sig.margin_usdt, "open", ~use_real)
                  EXCEPT !.timestamp = r.res.create_time]
    IN [w EXCEPT !.st = IF r.res.ok /\ ~missing
                        THEN [r.st EXCEPT !.trades = add_trade(@, row)]
                        ELSE r.st,
                 !.ms = IF placed THEN now ELSE @]

\* run_once, step 4, for the signals sigs[i..]: place_order for each, and a
\* trade row for each order whose result names its symbol. w: the adapter
\* state, the exchange state and the millisecond clock
RECURSIVE execute_trades(_, _, _, _, _)
execute_trades(w, sigs, i, dt, outcomes) ==
    IF i > Len(sigs) THEN w
    ELSE IF use_real /\ client
         THEN \* the result of a real order has no key "symbol"
              execute_trades(
                  [w EXCEPT !.ex = place_order_real(@, sigs[i].Symbol,
                                       sigs[i].Side, sigs[i].Qty,
                                       sigs[i].Entry, outcomes[i]).ex],
                  sigs, i + 1, dt, outcomes)
         ELSE execute_trades(
                  record_order(w, sigs[i],
                               place_order_virtual(w.st, sigs[i].Symbol,
                                   sigs[i].Side, sigs[i].Qty, sigs[i].Entry,
                                   w.ms + dt),
                               w.ms + dt),
                  sigs, i + 1, dt, outcomes)

\* TradingEngine.run_once over the signals of one scan: the world it leaves
\* and the signals it returns
run_once(w, signals, dt, outcomes) ==
    LET enhanced == [i \in 1..Len(signals) |-> enhance(signals[i])]
        top_signals == SubSeq(enhanced, 1, Min(Len(enhanced),
                                                settings.top_n_signals))
        done == execute_trades(w, top_signals, 1, dt, outcomes)
    IN IF signals = <<>> THEN [w |-> w, signals |-> <<>>]
       ELSE [w |-> IF ~use_real
                   THEN [done EXCEPT !.st.orders = monitor_virtual_orders(@)]
                   ELSE done,
             signals |-> top_signals]

\* what the notifier does with the posts about a symbol: "ok", or it raises
\* on the signal (post_signal_to_discord / _telegram) or on the trade
\* (post_trade_to_discord / _telegram)
Notices == {"ok", "signal", "trade"}

\* a notifier that never raises
Quiet == [s \in Symbols |-> "ok"]

\* run_once, step 2: a signal is appended to the list after its two posts,
\* inside the try of the step; a post that raises drops the signal
posted_signals(enhanced, notify) ==
    SelectSeq(enhanced, LAMBDA sig : notify[sig.Symbol] /= "signal")

\* run_once, step 4, gets to post_trade for the signal sig whose order
\* returned r: the result names its symbol and no required field is missing
trade_posted(sig, r) == r.res.ok /\ sig.Qty /= 0 /\ sig.margin_usdt /= 0

\* run_once, step 4, for the signals sigs[i..] with a notifier that may
\* raise: post_trade is called outside any try, after add_trade; n: the
\* number of signals place_order was called for
RECURSIVE execute_posting(_, _, _, _, _, _)
RECURSIVE after_order(_, _, _, _, _, _, _)
execute_posting(w, sigs, i, dt, outcomes, notify) ==
    IF i > Len(sigs) THEN [w |-> w, raised |-> FALSE, n |-> i - 1]
    ELSE IF use_real /\ client
         THEN \* the result of a real order has no key "symbol"
              execute_posting(
                  [w EXCEPT !.ex = place_order_real(@, sigs[i].Symbol,
                                       sigs[i].Side, sigs[i].Qty,
                                       sigs[i].Entry,
                                       outcomes[sigs[i].Symbol]).ex],
                  sigs, i + 1, dt, outcomes, notify)
         ELSE after_order(w, sigs, i, dt, outcomes, notify,
                          place_order_virtual(w.st, sigs[i].Symbol,
                              sigs[i].Side, sigs[i].Qty, sigs[i].Entry,
                              w.ms + dt))

after_order(w, sigs, i, dt, outcomes, notify, r) ==
    IF trade_posted(sigs[i], r) /\ notify[sigs[i].Symbol] = "trade"
    THEN [w |-> record_order(w, sigs[i], r, w.ms + dt), raised |-> TRUE,
          n |-> i]
    ELSE execute_posting(record_order(w, sigs[i], r, w.ms + dt), sigs, i + 1,
                         dt, outcomes, notify)

\* run_once after step 4: the reports, monitor_virtual_orders and the
\* return, unless step 4 raised
end_of_scan(done, top_signals) ==
    [w |-> IF ~use_real /\ ~done.raised
           THEN [done.w EXCEPT !.st.orders = monitor_virtual_orders(@)]
           ELSE done.w,
     signals |-> IF done.raised THEN <<>> ELSE top_signals,
     raised |-> done.raised,
     placed |-> {top_signals[k].Symbol : k \in 1..done.n}]

\* TradingEngine.run_once with a notifier that may raise
run_once_posting(w, signals, dt, outcomes, notify) ==
    LET enhanced == [i \in 1..Len(signals) |-> enhance(signals[i])]
        posted == posted_signals(enhanced, notify)
        top_signals == SubSeq(posted, 1, Min(Len(posted),
                                              settings.top_n_signals))
    IN IF posted = <<>>
       THEN [w |-> w, signals |-> <<>>, raised |-> FALSE, placed |-> {}]
       ELSE end_of_scan(execute_posting(w, top_signals, 1, dt, outcomes,
                                        notify),
                        top_signals)

\* what the exchange answers to the orders of one scan, per symbol
ScanOutcomes == {[s \in Symbols |-> o] : o \in PlaceOutcomes}

\* TradingEngine.run_once called on its own, by run_loop or by the button
\* "Generate Signals" of the dashboard
RunOnce(signals, dt, notify) ==
    /\ Len(positions) < MaxOrders /\ Len(trades) < MaxOrders
    /\ exId < MaxOrders
    /\ \E outcomes \in IF use_real /\ client THEN ScanOutcomes ELSE {<<>>} :
       \E r \in {run_once_posting([st |-> AdapterState, ex |-> ExchangeState,
                                   ms |-> ms],
                                  signals, dt, outcomes, notify)} :
           /\ SetAdapter(r.w.st)
           /\ SetExchange(r.w.ex)
           /\ ms' = r.w.ms
           /\ scan' = [signals |-> signals, notify |-> notify,
                       outcomes |-> outcomes, placed |-> r.placed,
                       raised |-> r.raised, by |-> "ui",
                       at |-> clock]
           /\ last' = [Done("run_once", ~r.raised) EXCEPT !.exc = r.raised]
    /\ UNCHANGED <<use_real, client, realFile, mark, applied, clock,
                   traderVars>>

NextScan ==
    \E signals \in SignalBatches, dt \in 0..1, notify \in [Symbols -> Notices] :
        RunOnce(signals, dt, notify)

\* the engine's scan on its own, in either mode
SpecScan == InitEither /\ [][NextScan]_vars

\* AutomatedTrader.get_available_capital; balance: the exchange's answer
get_available_capital(f, balance) ==
    IF use_real THEN balance ELSE available_or(f, DefaultCapital)

\* automation_cycle: the admission loop over sigs[i..]
RECURSIVE admit(_, _, _, _, _)
admit(top, sigs, i, capital, valid) ==
    IF i > Len(sigs) THEN top
    ELSE LET sig == sigs[i] IN
         IF sig.Symbol \notin valid \/ capital < sig.margin_usdt
         THEN admit(top, sigs, i + 1, capital, valid)
         ELSE IF Len(top) + 1 >= settings.max_signals
              THEN Append(top, sig)
              ELSE admit(Append(top, sig), sigs, i + 1,
                         capital - sig.margin_usdt, valid)

\* automation_cycle: the admission loop over sigs[i..] raises: it comes to
\* compare the capital with a margin that is no number (TypeError), outside
\* every try of the pass
RECURSIVE admit_raises(_, _, _, _, _)
admit_raises(top, sigs, i, capital, valid) ==
    IF i > Len(sigs) THEN FALSE
    ELSE LET sig == sigs[i] IN
         IF sig.Symbol \notin valid
         THEN admit_raises(top, sigs, i + 1, capital, valid)
         ELSE IF sig.margin_type /= "float" THEN TRUE
         ELSE IF capital < sig.margin_usdt
         THEN admit_raises(top, sigs, i + 1, capital, valid)
         ELSE IF Len(top) + 1 >= settings.max_signals THEN FALSE
         ELSE admit_raises(Append(top, sig), sigs, i + 1,
                           capital - sig.margin_usdt, valid)

\* automation_cycle: the trade rows of the admitted signals admitted[i..]
RECURSIVE insert_trades(_, _, _, _)
insert_trades(w, admitted, i, dt) ==
    IF i > Len(admitted) THEN w
    ELSE LET sig == admitted[i]
             now == w.ms + dt
             row == Trade(now, sig.Symbol, "Buy", 0, 0, sig.margin_usdt,
                          "open", ~use_real)
         IN insert_trades([w EXCEPT !.st.trades = add_trade(@, row),
                                    !.ms = now],
                          admitted, i + 1, dt)

\* what the exchange answers to get_wallet_balance
Balances == {0, 100}

\* automation_cycle: a scan is due when none has completed yet or the scan
\* interval has passed since the latest one
ScanDue(now) ==
    last_run_time = -1 \/ now - last_run_time >= settings.signal_interval

\* where a pass can raise: in check_risk_limits, in run_once, in get_symbols,
\* in add_trade of the insert loop, in the update of the statistics
Faults == {"none", "risk", "scan", "symbols", "persist", "stats"}

\* every fault reaches the handler of the loop
EscapesAll(fault) == fault /= "none"

\* the faults that no handler inside the pass catches: get_symbols and the
\* add_trade of the insert loop have a try/except of their own
Escapes(fault) == fault \in {"risk", "scan", "stats"}

\* the result of a pass that got through the risk gate and the scan: the
\* statistics update raises KeyError when stats has no key
\* "signals_generated"
PassResult(fault) ==
    IF stats = -1 \/ Escapes(fault) THEN "error" ELSE "completed"

\* a pass that raised before it changed anything
Raised(fault) ==
    /\ cyc' = [NoCycle EXCEPT !.result = "error", !.raised = {fault}]
    /\ UNCHANGED <<adapterVars, exchangeVars, realFile, scan, ms, stats,
                   last_run_time>>

\* a pass whose rejection counts as a completed scan
RejectedAsScanned ==
    /\ cyc' = [NoCycle EXCEPT !.result = "rejected"]
    /\ last_run_time' = clock
    /\ UNCHANGED <<adapterVars, exchangeVars, realFile, scan, ms, stats>>

\* a pass that the risk gate rejected: the cooldown follows, then continue
Rejected ==
    /\ cyc' = [NoCycle EXCEPT !.result = "rejected"]
    /\ UNCHANGED <<adapterVars, exchangeVars, realFile, scan, ms, stats,
                   last_run_time>>

\* one pass of the loop body of automation_cycle at the time clock: when a
\* scan is due, the risk gate, then run_once, the admission, the trade rows,
\* the statistics and last_run_time; fault: where the pass raises
LoopBody(signals, valid, dt, fault) ==
    /\ ncycles' = ncycles + 1
    /\ IF ~ScanDue(clock)
       THEN /\ cyc' = [NoCycle EXCEPT !.result = "not_due"]
            /\ UNCHANGED <<adapterVars, exchangeVars, realFile, scan, ms, stats,
                           last_run_time, last>>
       ELSE IF fault = "risk"
       THEN /\ last' = [Done("automation_cycle", FALSE) EXCEPT !.exc = TRUE]
            /\ Raised(fault)
       ELSE LET gate == check_risk_limits(trades, file, clock) IN
            /\ last' = Done("automation_cycle", gate)
            /\ IF ~gate
               THEN Rejected
               ELSE IF fault = "scan"
               THEN Raised(fault)
               ELSE \E outcomes \in IF use_real /\ client
                                    THEN [1..Len(signals) -> PlaceOutcomes]
                                    ELSE {<<>>},
                       balance \in IF use_real THEN Balances ELSE {0} :
                    \E r \in {run_once([st |-> AdapterState,
                                        ex |-> ExchangeState, ms |-> ms],
                                       signals, dt, outcomes)} :
                    \E capital \in
                           {get_available_capital(r.w.st.file, balance)},
                       valid_symbols \in
                           {IF fault = "symbols" THEN {} ELSE valid} :
                    \E malformed \in {admit_raises(<<>>, r.signals, 1, capital,
                                                   valid_symbols)} :
                    \E top_signals \in
                           {IF malformed THEN <<>>
                            ELSE admit(<<>>, r.signals, 1, capital,
                                       valid_symbols)} :
                    \E w \in {IF fault = "persist" \/ malformed THEN r.w
                              ELSE insert_trades(r.w, top_signals, 1, dt)},
                       result \in {IF malformed THEN "error"
                                   ELSE PassResult(fault)} :
                        /\ SetAdapter(w.st)
                        /\ SetExchange(w.ex)
                        /\ realFile' =
                               IF use_real /\ client /\ balance /= 0
                               THEN get_wallet_balance(
                                        exchange_wallet(w.ex.exPos))
                               ELSE realFile
                        /\ ms' = w.ms
                        /\ scan' = [signals |-> signals, notify |-> Quiet,
                                    outcomes |-> outcomes,
                                    placed |-> {r.signals[k].Symbol :
                                                   k \in 1..Len(r.signals)},
                                    raised |-> FALSE, by |-> "worker",
                                    at |-> clock]
                        /\ cyc' = [result |-> result, gate |-> TRUE,
                                   signals |-> signals, valid |-> valid,
                                   admitted |-> top_signals,
                                   raised |->
                                       {f \in {"symbols"} : fault = f}
                                       \cup {f \in {"admission"} : malformed}
                                       \cup {f \in {"persist"} :
                                                fault = f /\ top_signals /= <<>>}
                                       \cup {f \in {"stats"} :
                                                /\ ~malformed
                                                /\ stats = -1 \/ fault = f}]
                        /\ stats' = IF stats = -1 \/ malformed THEN stats
                                    ELSE stats + Len(top_signals)
                        /\ last_run_time' =
                               IF result = "error" THEN last_run_time
                               ELSE clock
    /\ UNCHANGED <<use_real, client, mark, applied, zone, settings>>

\* a pass of the loop by the one worker of a running controller
Cycle(signals, valid, dt, fault) ==
    /\ ncycles < MaxCycles
    /\ LoopBody(signals, valid, dt, fault)
    /\ UNCHANGED <<clock, threadVars>>

\* half a day passes
Tick ==
    /\ clock < MaxTicks * (Day \div 2)
    /\ clock' = clock + (Day \div 2)
    /\ UNCHANGED <<use_real, client, realFile, scan, adapterVars, ms, mark,
                   exchangeVars, applied, last, traderVars>>

\* hosts on UTC and on UTC+12
Zones == {0, Day \div 2}

InitCycle ==
    /\ InitVirtual
    /\ zone \in Zones
    /\ settings = [DefaultSettings EXCEPT !.max_daily_trades = 2]
    /\ cyc = NoCycle
    /\ stats \in {-1, 0}
    /\ last_run_time = -1
    /\ ncycles = 0
    /\ InitThreads

NextCycle ==
    \/ \E signals \in SignalBatches, valid \in TradableSets, dt \in 0..1,
          fault \in Faults :
           Cycle(signals, valid, dt, fault)
    \/ Tick

\* the automation loop in virtual mode, pass by pass
SpecCycle == InitCycle /\ [][NextCycle]_vars

NextGate ==
    \/ \E signals \in {<<>>, <<SigC>>}, dt \in 0..1 :
           Cycle(signals, Symbols, dt, "none")
    \/ Tick

\* the automation loop in virtual mode when no call fails
SpecGate == InitCycle /\ [][NextGate]_vars

\* the values of TOP_N_SIGNALS that the constructor can find in the table
MaxSignalsChoices == {0, 1, 5}

\* a controller built over any stored TOP_N_SIGNALS, with statistics that
\* have their keys; the engine reads the setting as it is at scan time
InitAdmit ==
    /\ InitVirtual
    /\ zone = 0
    /\ settings \in {[DefaultSettings EXCEPT !.max_signals = n] :
                        n \in MaxSignalsChoices}
    /\ cyc = NoCycle
    /\ stats = 0
    /\ last_run_time = -1
    /\ ncycles = 0
    /\ InitThreads

NextAdmit ==
    \/ \E signals \in SignalBatches, valid \in TradableSets, dt \in 0..1 :
           Cycle(signals, valid, dt, "none")
    \/ Tick

\* the admission of the controller under every setting of max_signals
SpecAdmit == InitAdmit /\ [][NextAdmit]_vars

\* a signal whose margin is a text, "20", not a number
SigText == [Signal("ETH", "Buy", 1, 400, 20) EXCEPT !.margin_type = "str"]

\* scans that return a signal with a margin that is no number
MalformedBatches == {<<SigText>>, <<SigText, SigA>>, <<SigA, SigText>>}

InitMalformed == InitAdmit /\ settings = DefaultSettings

NextMalformed ==
    \/ \E signals \in MalformedBatches, valid \in TradableSets, dt \in 0..1 :
           Cycle(signals, valid, dt, "none")
    \/ Tick

\* the automation loop over scans with a malformed signal
SpecMalformed == InitMalformed /\ [][NextMalformed]_vars

\* ------------------------------------------------------------------------
\* The controller: start(), stop() and the threads of automation_cycle
\* ------------------------------------------------------------------------
Workers == 1..MaxWorkers

\* Thread.is_alive()
is_alive(w) == workers[w].state \in {"ready", "sleeping", "cooldown"}

Asleep(kind, seconds, rounds, start_time) ==
    [state |-> kind, timer |-> seconds, rounds |-> rounds,
     start_time |-> start_time]

Exited(wk) == [wk EXCEPT !.state = "done", !.timer = 0, !.rounds = 0]

\* AutomatedTrader.start()
Start ==
    /\ caller.state = "idle"
    /\ is_running \/ \E w \in Workers : workers[w].state = "unborn"
    /\ IF is_running
       THEN /\ last' = Done("start", FALSE)
            /\ UNCHANGED <<is_running, automation_thread, workers>>
       ELSE LET w == CHOOSE v \in Workers :
                         /\ workers[v].state = "unborn"
                         /\ \A u \in 1..(v - 1) : workers[u].state /= "unborn"
            IN /\ is_running' = TRUE
               /\ automation_thread' = w
               /\ workers' = [workers EXCEPT ![w].state = "ready"]
               /\ last' = Done("start", TRUE)
    /\ UNCHANGED <<use_real, client, realFile, scan, adapterVars, ms, mark,
                   exchangeVars, applied, clock, cycleVars, caller, stopAt, views>>

\* AutomatedTrader.stop(), up to the join of the latest thread
Stop ==
    /\ caller.state = "idle"
    /\ IF ~is_running
       THEN /\ last' = Done("stop", FALSE)
            /\ UNCHANGED <<is_running, caller, stopAt>>
       ELSE /\ is_running' = FALSE
            /\ stopAt' = [w \in Workers |->
                             IF workers[w].state = "cooldown" THEN clock
                             ELSE stopAt[w]]
            /\ IF automation_thread /= 0 /\ is_alive(automation_thread)
               THEN /\ caller' = [state |-> "joining", timer |-> JoinTimeout]
                    /\ last' = Done("stop_joins", TRUE)
               ELSE /\ caller' = Idle
                    /\ last' = Done("stop", TRUE)
    /\ UNCHANGED <<use_real, client, realFile, scan, adapterVars, ms, mark,
                   exchangeVars, applied, clock, cycleVars, automation_thread,
                   workers, views>>

\* stop(): join(timeout=10) returns, the thread gone or the time out; stop()
\* returns True
JoinReturns ==
    /\ caller.state = "joining"
    /\ ~is_alive(automation_thread) \/ caller.timer = 0
    /\ caller' = Idle
    /\ last' = Done("stop", TRUE)
    /\ UNCHANGED <<use_real, client, realFile, scan, adapterVars, ms, mark,
                   exchangeVars, applied, clock, cycleVars, is_running,
                   automation_thread, workers, stopAt, views>>

\* automation_cycle at the test of its while loop: a thread that starts, or
\* comes back from a sleep at the end of a pass or from the last round of
\* the cooldown
WorkerLoop(w, signals, valid, dt, fault) ==
    /\ \/ workers[w].state = "ready"
       \/ workers[w].state = "sleeping" /\ workers[w].timer = 0
       \/ /\ workers[w].state = "cooldown"
          /\ workers[w].timer = 0 /\ workers[w].rounds = 0
    /\ LET start_time == IF workers[w].state = "ready" THEN clock
                         ELSE workers[w].start_time
       IN IF ~is_running \/ clock - start_time >= SessionLimit
          THEN /\ workers' = [workers EXCEPT ![w] = Exited(@)]
               /\ UNCHANGED <<use_real, client, realFile, scan, adapterVars, ms, mark,
                              exchangeVars, applied, last, cycleVars>>
          ELSE /\ LoopBody(signals, valid, dt, fault)
               /\ workers' =
                      [workers EXCEPT ![w] =
                          CASE cyc'.result = "rejected" ->
                                   Asleep("cooldown", CooldownSleep,
                                          CooldownRounds - 1, start_time)
                            [] cyc'.result = "error" ->
                                   Asleep("sleeping", BackoffSleep, 0, start_time)
                            [] OTHER ->
                                   Asleep("sleeping", PollSleep, 0, start_time)]
    /\ UNCHANGED <<clock, is_running, automation_thread, caller, stopAt, views>>

\* automation_cycle in the risk cooldown, back from the sleep of a round
\* with more rounds to go: the re-check of the running flag
WorkerCooldown(w) ==
    /\ workers[w].state = "cooldown"
    /\ workers[w].timer = 0 /\ workers[w].rounds > 0
    /\ workers' = [workers EXCEPT ![w] =
                      IF ~is_running THEN Exited(@)
                      ELSE [@ EXCEPT !.timer = CooldownSleep,
                                     !.rounds = @ - 1]]
    /\ UNCHANGED <<use_real, client, realFile, scan, adapterVars, ms, mark,
                   exchangeVars, applied, last, clock, cycleVars, is_running,
                   automation_thread, caller, stopAt, views>>

\* the step of the clock: the resolution of the times of the calls
TimeStep == JoinTimeout

\* a thread that has something to do at this very time
Pending ==
    \/ \E w \in Workers :
           \/ workers[w].state = "ready"
           \/ workers[w].state \in {"sleeping", "cooldown"} /\ workers[w].timer = 0
    \/ caller.state = "joining"
           /\ (~is_alive(automation_thread) \/ caller.timer = 0)

\* time passes while every thread sleeps or waits
Advance ==
    /\ clock < MaxSteps * TimeStep
    /\ ~Pending
    /\ LET d == TimeStep IN
       /\ \A w \in Workers : is_alive(w) => workers[w].timer >= d
       /\ caller.state = "joining" => caller.timer >= d
       /\ clock' = clock + d
       /\ workers' = [w \in Workers |->
                         IF is_alive(w)
                         THEN [workers[w] EXCEPT !.timer = @ - d]
                         ELSE workers[w]]
       /\ caller' = IF caller.state = "joining"
                    THEN [caller EXCEPT !.timer = @ - d]
                    ELSE caller
    /\ UNCHANGED <<use_real, client, realFile, scan, adapterVars, ms, mark,
                   exchangeVars, applied, last, cycleVars, is_running,
                   automation_thread, stopAt, views>>

\* a trade table whose drawdown the risk gate rejects
LosingHistory == <<ClosedRow(-20)>>

InitController ==
    /\ clock = 0
    /\ use_real = FALSE
    /\ client = FALSE
    /\ file = ToFile(Ledger(DefaultCapital, DefaultCapital, 0))
    /\ realFile = NoRealLedger
    /\ scan = NoScan
    /\ capMem = FromFile(file)
    /\ walletMem = [capital |-> file.capital, available |-> file.available,
                    used |-> file.used, full |-> TRUE]
    /\ orders = <<>>
    /\ positions = <<>>
    /\ trades \in {<<>>, LosingHistory}
    /\ ms = 1
    /\ mark \in MarkPrices
    /\ exPos = [s \in Symbols |-> 0]
    /\ exId = 0
    /\ exBrackets = {}
    /\ applied = 0
    /\ last = NoOp
    /\ zone = 0
    /\ settings = DefaultSettings
    /\ cyc = NoCycle
    /\ stats \in {-1, 0}
    /\ last_run_time = -1
    /\ ncycles = 0
    /\ InitThreads

\* what a scan returns while the controller runs
ControllerBatches == {<<>>, <<SigC>>}

NextController ==
    \/ Start
    \/ Stop
    \/ JoinReturns
    \/ \E w \in Workers, signals \in ControllerBatches, fault \in Faults :
           WorkerLoop(w, signals, Symbols, 1, fault)
    \/ \E w \in Workers : WorkerCooldown(w)
    \/ Advance

\* the controller, its caller and its worker threads in virtual mode
SpecController == InitController /\ [][NextController]_vars

\* what the settings tab of the automation view can save
SettingsChoices ==
    {DefaultSettings,
     [DefaultSettings EXCEPT !.signal_interval = 900, !.max_signals = 1,
                             !.max_drawdown_limit = 10,
                             !.max_daily_trades = 30]}

\* AutomatedTrader.update_settings(new), statement by statement: the rows
\* of the settings table first (pc 0), then one attribute after the other
UpdateSettings(new) ==
    /\ IF views.upd.pc = 0
       THEN /\ settings' = [settings EXCEPT !.top_n_signals = new.max_signals]
            /\ views' = [views EXCEPT !.upd = [pc |-> 1, new |-> new],
                                      !.seen = @ \cup {Snapshot(new)}]
       ELSE /\ new = views.upd.new
            /\ settings' = [settings EXCEPT ![FieldOrder[views.upd.pc]] =
                                                new[FieldOrder[views.upd.pc]]]
            /\ views' = [views EXCEPT !.upd.pc =
                                          IF @ = Len(FieldOrder) THEN 0
                                          ELSE @ + 1]
    /\ last' = Done("update_settings", views'.upd.pc = 0)
    /\ UNCHANGED <<use_real, client, realFile, scan, adapterVars, ms, mark,
                   exchangeVars, applied, clock, zone, cyc, stats,
                   last_run_time, ncycles, is_running, automation_thread,
                   workers, caller, stopAt>>

\* AutomatedTrader.get_status(), attribute by attribute: the dictionary
\* "settings" is complete, and returned, after the last read
GetStatus ==
    /\ LET k == IF views.rd.pc = Len(FieldOrder) THEN 1 ELSE views.rd.pc + 1
           sofar == IF k = 1 THEN <<>> ELSE views.rd.snap
       IN /\ views' = [views EXCEPT !.rd =
                           [pc |-> k,
                            snap |-> Append(sofar, settings[FieldOrder[k]])]]
          /\ last' = Done("get_status", k = Len(FieldOrder))
    /\ UNCHANGED <<use_real, client, realFile, scan, adapterVars, ms, mark,
                   exchangeVars, applied, clock, cycleVars, is_running,
                   automation_thread, workers, caller, stopAt>>

NextSettings ==
    \/ \E new \in SettingsChoices : UpdateSettings(new)
    \/ GetStatus

\* the settings of the controller under the threads of the UI
SpecSettings == InitController /\ [][NextSettings]_vars

\* the button "Generate Signals" of the automation view, pressed while the
\* controller is in any state: run_once on the thread of the UI
GenerateSignals(signals) == RunOnce(signals, 1, Quiet)

NextUi ==
    \/ Start
    \/ \E w \in Workers, signals \in ControllerBatches :
           WorkerLoop(w, signals, Symbols, 1, "none")
    \/ Advance
    \/ \E signals \in ControllerBatches : GenerateSignals(signals)

\* the controller and the UI over the same engine and adapter
SpecUi == InitController /\ [][NextUi]_vars

\* ------------------------------------------------------------------------
\* Properties of the ledger and of the trade life-cycle
\* ------------------------------------------------------------------------
CloseOps == {"close_virtual_trade", "close_real_trade", "close_trade"}

\* C1: in virtual mode, after every operation that writes the ledger
\* (place_order, close_virtual_trade, close_virtual_position,
\* apply_pnl_to_capital), in any order, available + used = capital in
\* capital.json.
C1_LedgerBalanced == file.available + file.used = file.capital

C3_ClosedIsFinal ==
    [][ /\ \A i \in 1..Len(trades) :
               trades[i].status = "closed" =>
                   i <= Len(trades') /\ trades'[i].status = "closed"
        /\ (last'.op \in CloseOps /\ last'.tstat = "closed") =>
               /\ ~last'.ok
               /\ trades' = trades
               /\ <<file, capMem, walletMem>>' = <<file, capMem, walletMem>>
               /\ exPos' = exPos ]_vars

\* a close was asked for a closed trade while the exchange holds a position
C3_CloseOfClosedTrade ==
    /\ last.op \in CloseOps /\ last.tstat = "closed"
    /\ use_real /\ client /\ exPos["BTC"] = 1

\* C5: an order reserving margin m followed by the release of that order
\* with pnl 0 leaves the available capital in capital.json as it was before
\* the order.
C5_ReleaseRestoresAvailable ==
    [][ ( /\ last.op = "place_order" /\ last.ok
          /\ last'.op \in {"close_virtual_position", "close_virtual_trade"}
          /\ last'.ok /\ last'.oid = last.oid )
        => file'.available = last.avail ]_vars

\* C6: closing an open virtual trade of margin m with pnl p closes the trade,
\* adds m + p to available, lowers used by m (not below 0) and adds p to
\* capital.
C6_CloseCreditsLedger ==
    [][ (last'.op = "close_virtual_trade" /\ last'.tstat = "open") =>
            LET i == get_trade_by_id(trades, last'.oid)
                m == trades[i].margin_usdt
                p == file'.capital - file.capital
            IN /\ trades'[i].status = "closed"
               /\ file'.available = file.available + m + p
               /\ file'.used = Max(file.used - m, 0) ]_vars

\* the largest drawdown of the equity curve over the whole trade table,
\* from the capital of capital.json
HistoryDrawdown ==
    calculate_drawdown(equity_curve(<<file.capital>>, trades, 1, Len(trades)))

\* C4: check_risk_limits never admits when the maximum drawdown of the equity
\* curve (capital plus the running sum of the realized pnl of the trade
\* history, oldest first) reaches max_drawdown_limit.
C4_GateRejectsDrawdown ==
    ( /\ last.op = "check_risk_limits"
      /\ AtLeast(HistoryDrawdown, settings.max_drawdown_limit) )
    => ~last.ok

\* C7: with available = 100 and two valid signals of margin 60 each, one
\* pass admits only the first signal and leaves available = 40.
C7_AdmitsOnlyFirst ==
    [][ ( /\ ncycles' = ncycles + 1
          /\ cyc'.gate
          /\ file.available = 100 /\ capMem.available = 100
          /\ Len(cyc'.signals) = 2
          /\ \A i \in 1..2 :
                 /\ cyc'.signals[i].margin_usdt = 60
                 /\ calculate_margin(cyc'.signals[i].Qty,
                                     cyc'.signals[i].Entry, Leverage) = 60
                 /\ cyc'.signals[i].Symbol \in cyc'.valid )
        => /\ cyc'.admitted = <<cyc'.signals[1]>>
           /\ file'.available = 40 ]_vars

\* the trades opened on the UTC calendar day of the clock
UtcTodayTrades ==
    {i \in 1..Len(trades) : utc_date(trades[i].timestamp) = utc_date(clock)}

\* C8: once max_daily_trades trades have been opened on the current UTC day,
\* the next pass's risk gate returns False and the pass places no order and
\* records no trade.
C8_DailyLimitBlocks ==
    [][ ( /\ ncycles' = ncycles + 1
          /\ cyc'.result /= "not_due"
          /\ Cardinality(UtcTodayTrades) >= settings.max_daily_trades )
        => /\ ~cyc'.gate
           /\ trades' = trades
           /\ orders' = orders
           /\ exId' = exId ]_vars

\* the threads inside automation_cycle
LiveWorkers == {w \in Workers : is_alive(w)}

\* C9: for any interleaving of start() and stop(), at most one worker thread
\* is executing the scheduling loop at any time, and start() on a running
\* controller returns False and starts no thread.
C9_SingleWorker ==
    [][ /\ Cardinality(LiveWorkers') <= 1
        /\ (last'.op = "start" /\ last' /= last /\ is_running) =>
               ~last'.ok /\ workers' = workers ]_vars

\* C10: when stop() is called while a worker is in the risk cooldown, the
\* worker has exited once the 60 seconds of one re-check have passed, and
\* the running flag is false when it exits.
C10_StopEndsCooldown ==
    [][ \A w \in Workers :
            stopAt'[w] >= 0 =>
                /\ clock' - stopAt'[w] > CooldownSleep => ~is_alive(w)'
                /\ (is_alive(w) /\ ~is_alive(w)') => ~is_running' ]_vars

\* C11: stop() returns False when the worker thread is still alive at the end
\* of the join, with the running flag left cleared, and True only when the
\* worker has exited.
C11_StopReportsTimeout ==
    [][ (caller.state = "joining" /\ caller'.state = "idle") =>
            /\ last'.op = "stop"
            /\ last'.ok <=> ~is_alive(automation_thread)'
            /\ ~is_running' ]_vars

\* the worker w ran a pass of the loop body in this step
RanPass(w) == ncycles' = ncycles + 1 /\ workers'[w] /= workers[w]

Timers ==
    {workers[w].timer : w \in {v \in Workers : is_alive(v)}}
    \cup {caller.timer : c \in {caller.state} \cap {"joining"}}

\* the time to the next wake-up
NextWake == CHOOSE d \in Timers : \A e \in Timers : d <= e

\* time passes until the next thread wakes up
Sleep ==
    /\ clock < SessionLimit + BackoffSleep
    /\ ~Pending
    /\ Timers /= {}
    /\ LET d == NextWake IN
       /\ clock' = clock + d
       /\ workers' = [w \in Workers |->
                         IF is_alive(w)
                         THEN [workers[w] EXCEPT !.timer = @ - d]
                         ELSE workers[w]]
       /\ caller' = IF caller.state = "joining"
                    THEN [caller EXCEPT !.timer = @ - d]
                    ELSE caller
    /\ UNCHANGED <<use_real, client, realFile, scan, adapterVars, ms, mark,
                   exchangeVars, applied, last, cycleVars, is_running,
                   automation_thread, stopAt, views>>

\* a session in which no scan finds a signal and only the statistics update
\* can raise
SessionFaults == {"none", "stats"}

NextSession ==
    \/ Start
    \/ \E w \in Workers, fault \in SessionFaults :
           WorkerLoop(w, <<>>, Symbols, 1, fault)
    \/ \E w \in Workers : WorkerCooldown(w)
    \/ Sleep

\* the controller started once and left alone for more than an hour
SpecSession == InitController /\ [][NextSession]_vars

\* the worker w is at the test of the while loop
AtLoopTest(w) ==
    \/ workers[w].state = "ready"
    \/ workers[w].state = "sleeping" /\ workers[w].timer = 0
    \/ workers[w].state = "cooldown"
           /\ workers[w].timer = 0 /\ workers[w].rounds = 0

\* C13: while the running flag stays set the worker never leaves the loop,
\* and whenever the scan interval has passed since last_run_time the worker
\* that comes to the test of the loop runs a cycle.
C13_WorkerKeepsScanning ==
    [][ \A w \in Workers :
            /\ (is_alive(w) /\ ~is_alive(w)') => ~is_running
            /\ ( /\ AtLoopTest(w) /\ workers'[w] /= workers[w]
                 /\ is_running /\ ScanDue(clock) ) =>
                   /\ ncycles' = ncycles + 1
                   /\ cyc'.result /= "not_due" ]_vars


\* ------------------------------------------------------------------------
\* Order ids and brackets
\* ------------------------------------------------------------------------
\* the bracket orders of a kind ("VTP", "VSL") that carry the order id oid
BracketsOf(oid, kind) ==
    {k \in 1..Len(orders) : orders[k].kind = kind /\ orders[k].order_id = oid}

\* the entry orders of the order list
EntryOrders == {k \in 1..Len(orders) : orders[k].kind = "entry"}

\* the trade rows written by the insert loop of automation_cycle: the loop
\* reads the key "entry_price", which no signal has, and place_order never
\* records a price of 0
CycleRows == {i \in 1..Len(trades) : trades[i].entry_price = 0}

\* C14: for every order id there is never more than one take-profit order
\* and one stop-loss order attached to it, whatever calls of place_order
\* (new orders, modifications, repeated calls) were made
C14_BracketOncePerOrder ==
    \A k \in 1..Len(orders) :
        /\ Cardinality(BracketsOf(orders[k].order_id, "VTP")) <= 1
        /\ Cardinality(BracketsOf(orders[k].order_id, "VSL")) <= 1

\* C15: every simulated order that was placed, and every trade row inserted
\* by the automation cycle, has an order id that no order and no row issued
\* before it has
C15_OrderIdsUnique ==
    /\ \A j, k \in EntryOrders :
           j /= k => orders[j].order_id /= orders[k].order_id
    /\ \A i \in CycleRows :
           /\ \A j \in CycleRows :
                  i /= j => trades[i].order_id /= trades[j].order_id
           /\ \A k \in EntryOrders : trades[i].order_id /= orders[k].order_id


\* ------------------------------------------------------------------------
\* The real adapter
\* ------------------------------------------------------------------------
\* the latest operation was a real place_order that got to poll the status
PolledOrder == last.op = "place_order_real" /\ last.oid /= -1

\* C16: real-mode place_order places the bracket exactly when the
\* polled status is Filled, PartiallyFilled or New, and for any other status
\* it returns failure and places no bracket
C16_BracketIffConfirmed ==
    PolledOrder =>
        /\ last.oid \in exBrackets <=>
               last.status \in {"Filled", "PartiallyFilled", "New"}
        /\ last.status \notin {"Filled", "PartiallyFilled", "New"} =>
               ~last.ok /\ last.oid \notin exBrackets

\* C17: close_real_position returns True only when the position size polled
\* again after the closing order is confirmed to be zero; in every other
\* outcome of that poll it returns False
C17_TrueOnlyIfConfirmedFlat ==
    (last.op \in {"close_real_position", "close_real_trade"} /\ last.ok) =>
        last.status = "closed"


WalletLedger == Ledger(walletMem.capital, walletMem.available, walletMem.used)

\* C19: after every mutation of the virtual ledger the virtual section of
\* capital.json equals the ledger the adapter uses for its next operation:
\* self.capital for place_order, self.virtual_wallet for
\* close_virtual_position, the file itself for close_virtual_trade
C19_FileIsTheLedger ==
    /\ FromFile(file) = capMem
    /\ FromFile(file) = WalletLedger


\* the latest operation was a real-mode close that succeeded
RealCloseSucceeded ==
    last.op \in {"close_real_position", "close_real_trade"} /\ last.ok

\* C20: a real-mode close that succeeds refreshes the real-mode ledger
\* (capital, available, used) from the wallet endpoint of the exchange as
\* part of the close, and nothing writes that ledger except such a refresh
C20_CloseRefreshesRealLedger ==
    [][ /\ RealCloseSucceeded' =>
               realFile' = get_wallet_balance(exchange_wallet(exPos'))
        /\ realFile' /= realFile =>
               realFile' = get_wallet_balance(exchange_wallet(exPos'))
      ]_vars


\* ------------------------------------------------------------------------
\* The scan of the engine
\* ------------------------------------------------------------------------
\* the symbols of the signals of the latest scan that are due an order: the
\* first top_n_signals signals of the fetched list
DuePlaced ==
    {scan.signals[k].Symbol :
        k \in 1..Min(Len(scan.signals), settings.top_n_signals)}

\* C21: an exception of the notifier, on a signal or on a trade, never keeps
\* that signal or a later signal of the same scan from being executed:
\* place_order is called for every signal due an order, and the scan
\* does not raise
C21_NotifierNeverBlocks ==
    scan.by /= "none" => (scan.placed = DuePlaced /\ ~scan.raised)


\* C22: close_trade of the Trade Store applied to a trade that is already
\* closed is a no-op: exit_price, pnl and status keep the values of the
\* first close
C22_CloseOfClosedIsNoOp ==
    [][ (last'.op = "db_close_trade" /\ last'.tstat = "closed") =>
            trades' = trades ]_vars


\* C23: every pass that gets through the risk gate and fetches signals ends
\* with the statistics persisted and last_run_time set to the time of the
\* pass, so that two successive fetches of the worker are at least the scan
\* interval apart; this for every value of the statistics that the
\* constructor can load, the missing AUTOMATION_STATS record among them.
C23_CycleEndsWithStats ==
    [][ ( /\ ncycles' = ncycles + 1
          /\ cyc'.gate
          /\ stats = -1 \/ "stats" \notin cyc'.raised ) =>
            /\ cyc'.result = "completed"
            /\ stats' = stats + Len(cyc'.admitted)
            /\ last_run_time' = clock
            /\ scan.by = "worker" =>
                   clock - scan.at >= settings.signal_interval ]_vars


\* the symbols of the signals that the latest pass admitted
AdmittedSymbols(c) == {c.admitted[i].Symbol : i \in 1..Len(c.admitted)}

\* C24: within a pass place_order is invoked only for signals that passed the
\* admission of the controller (validity filter, capital, max_signals): never
\* for a signal that was not admitted.
C24_OrdersOnlyForAdmitted ==
    [][ (ncycles' = ncycles + 1 /\ cyc'.gate) =>
            scan'.placed \subseteq AdmittedSymbols(cyc') ]_vars


RECURSIVE MarginSum(_)
\* the sum of the margins of the signals sigs
MarginSum(sigs) ==
    IF sigs = <<>> THEN 0
    ELSE sigs[1].margin_usdt + MarginSum(Tail(sigs))

\* C25: in every pass the number of admitted signals is at most max_signals
\* and the sum of their margins is at most the available capital read at the
\* start of the admission, for every max_signals >= 0 and every list of
\* signals.
C25_AdmissionBounded ==
    [][ (ncycles' = ncycles + 1 /\ cyc'.gate) =>
            /\ Len(cyc'.admitted) <= settings.max_signals
            /\ MarginSum(cyc'.admitted)
                   <= get_available_capital(file', 0) ]_vars


\* C26: no placed order has two trade rows, and no trade row exists without
\* an order that was placed: every order id appears in the Trade Store at
\* most once, and every row carries the id of an order of the adapter.
C26_OneRowPerOrder ==
    /\ \A i, j \in 1..Len(trades) :
           i /= j => trades[i].order_id /= trades[j].order_id
    /\ \A i \in 1..Len(trades) :
           trades[i].status = "open" =>
               \E k \in EntryOrders : orders[k].order_id = trades[i].order_id


\* C27: every real place_order of a scan that returns success is followed by
\* an open trade row with the id of that order, and a real place_order that
\* returns failure produces no trade row.
C27_RealOrderRecorded ==
    [][ (use_real /\ client /\ scan'.by = "ui" /\ exId' /= exId) =>
            \A s \in scan'.placed :
                IF OrderConfirmed(scan'.outcomes[s])
                THEN \E i \in Len(trades) + 1 .. Len(trades') :
                         /\ trades'[i].symbol = s
                         /\ trades'[i].status = "open"
                         /\ trades'[i].order_id \in exId + 1 .. exId'
                ELSE \A i \in Len(trades) + 1 .. Len(trades') :
                         trades'[i].symbol /= s ]_vars


\* C28: only the background worker of the controller changes capital and
\* trade state: a scan triggered from the UI places no order and writes no
\* trade and no capital, so that place_order never runs on two threads.
C28_OnlyWorkerWrites ==
    [][ ( \/ orders' /= orders
          \/ positions' /= positions
          \/ trades' /= trades
          \/ file' /= file
          \/ capMem' /= capMem ) => ncycles' = ncycles + 1 ]_vars


\* the signals of a scan whose margin is a number, as run_once returns them
WellFormed(signals) ==
    SelectSeq([i \in 1..Len(signals) |-> enhance(signals[i])],
              LAMBDA sig : sig.margin_type = "float")

\* C29: a malformed signal in the fetched list (a margin that is no number)
\* makes the pass skip that signal only: the other signals are admitted and
\* recorded as without it, and the pass completes with the statistics and
\* last_run_time updated.
C29_MalformedSkipped ==
    [][ ( /\ ncycles' = ncycles + 1
          /\ cyc'.gate
          /\ \E i \in 1..Len(cyc'.signals) :
                 cyc'.signals[i].margin_type /= "float" ) =>
            /\ cyc'.result = "completed"
            /\ stats' = stats + Len(cyc'.admitted)
            /\ last_run_time' = clock
            /\ cyc'.admitted =
                   admit(<<>>, WellFormed(cyc'.signals), 1,
                         get_available_capital(file', 0), cyc'.valid) ]_vars


\* C30: no signal whose symbol is not in the tradable set of the adapter (or
\* that lacks a symbol or a margin) is admitted or recorded as a trade by a
\* pass of the automation cycle.
C30_OnlyTradableRecorded ==
    [][ (ncycles' = ncycles + 1 /\ cyc'.gate) =>
            /\ AdmittedSymbols(cyc') \subseteq cyc'.valid
            /\ \A i \in Len(trades) + 1 .. Len(trades') :
                   trades'[i].symbol \in cyc'.valid ]_vars


\* C31: a pass rejected by the risk gate leaves last_run_time unchanged,
\* places no order, records no trade and leaves the statistics unchanged.
C31_RejectedChangesNothing ==
    [][ (ncycles' = ncycles + 1 /\ cyc'.result = "rejected") =>
            /\ last_run_time' = last_run_time
            /\ stats' = stats
            /\ orders' = orders
            /\ positions' = positions
            /\ trades' = trades
            /\ file' = file
            /\ exId' = exId ]_vars

\* a pass was rejected after an earlier pass had completed a scan and
\* recorded trades
C31_RejectedAfterScan ==
    /\ cyc.result = "rejected"
    /\ last_run_time /= -1
    /\ clock > last_run_time
    /\ trades /= <<>>


\* C32: after stop() the worker leaves the loop from every phase (poll
\* sleep, pass, backoff sleep after an exception): it reads the cleared flag
\* within one poll tick of at most 60 seconds, so at the time of the stop no
\* live worker is further than that from its next test of the flag.
C32_StopSeenWithinTick ==
    [][ (is_running /\ ~is_running') =>
            \A w \in Workers :
                is_alive(w) => workers[w].timer <= CooldownSleep ]_vars


\* C33: get_status() never returns a "settings" that mixes values of before
\* and of after a concurrent update_settings(): what it returns is one of
\* the settings the controller was given.
C33_StatusNeverMixed ==
    views.rd.pc = Len(FieldOrder) => views.rd.snap \in views.seen


\* ------------------------------------------------------------------------
\* The margin in use
\* ------------------------------------------------------------------------
RECURSIVE OpenMargin(_)
\* the sum of the margins of the open positions of a list
OpenMargin(ps) ==
    IF ps = <<>> THEN 0
    ELSE (IF ps[1].status = "open" THEN ps[1].margin ELSE 0)
         + OpenMargin(Tail(ps))

\* C34: in virtual mode every place_order (new order, implicit close,
\* modification) and every close moves the used amount of the ledger by
\* exactly the change of the sum of the margins of the open virtual
\* positions, so that after any sequence of them used is that sum.
C34_UsedIsOpenMargin ==
    [][ file'.used - file.used
            = OpenMargin(positions') - OpenMargin(positions) ]_vars


\* ------------------------------------------------------------------------
\* The running flag and the worker
\* ------------------------------------------------------------------------
\* C35: the running flag that get_status reports is set only while a worker
\* thread is alive: when the worker has left the loop, for any reason, the
\* flag is cleared, so that the next start() makes a new worker.
C35_RunningOnlyWhileAlive == is_running => \E w \in Workers : is_alive(w)


\* ------------------------------------------------------------------------
\* Virtual closes
\* ------------------------------------------------------------------------
\* C36: a virtual close is all or nothing: when close_virtual_trade or
\* close_virtual_position reports success the record of the trade table is
\* closed, the position in memory is closed and its margin has left the used
\* amount of the ledger; when it reports failure the trade table, the
\* positions and the ledger are as before.
C36_VirtualCloseAllOrNothing ==
    [][ (last'.op \in {"close_virtual_position", "close_virtual_trade"}
             /\ last' /= last) =>
            IF last'.ok
            THEN LET i == get_trade_by_id(trades, last'.oid)
                     p == FirstIdx(positions,
                                   LAMBDA q : q.order_id = last'.oid
                                              /\ q.status = "open")
                 IN /\ i /= 0 /\ trades'[i].status = "closed"
                    /\ p /= 0 /\ positions'[p].status = "closed"
                    /\ file'.used = Max(file.used - positions[p].margin, 0)
            ELSE /\ trades' = trades
                 /\ positions' = positions
                 /\ <<file, capMem, walletMem>>' = <<file, capMem, walletMem>>
      ]_vars


\* the simulated adapter when close_virtual_trade is called again and again
\* as long as a call of it changes anything
SpecRetry ==
    /\ InitSimulated
    /\ [][NextVirtual]_vars
    /\ WF_vars(\E trade_id \in TradeIds : CloseVirtualTrade(trade_id))

\* close_virtual_trade never returns True for a trade that was open
CloseVirtualTradeNeverSucceeds ==
    ~(last.op = "close_virtual_trade" /\ last.ok)

\* C37: an open virtual trade can be closed: with close_virtual_trade called
\* on it, a call returns True and the trade becomes closed, the latest price
\* coming from get_chart_data via get_kline via _send_request.
C37_OpenTradeCanClose ==
    (\E i \in 1..Len(trades) : trades[i].status = "open" /\ trades[i].virtual)
        ~> (last.op = "close_virtual_trade" /\ last.ok)


\* ------------------------------------------------------------------------
\* Real mode and the simulated path
\* ------------------------------------------------------------------------
\* C38: when use_real is set, place_order never takes the simulated path:
\* whatever it returns, the virtual ledger, the virtual orders and the
\* virtual positions are as before the call.
C38_RealNeverSimulated ==
    [][ ( /\ use_real
          /\ last'.op \in {"place_order", "modify_order"}
          /\ last' /= last ) =>
            /\ <<file, capMem, walletMem>>' = <<file, capMem, walletMem>>
            /\ orders' = orders
            /\ positions' = positions ]_vars


\* ------------------------------------------------------------------------
\* Bracket orders
\* ------------------------------------------------------------------------
\* C39: the take-profit and the stop-loss order of one virtual position are
\* never both filled: of the two bracket orders made for an order id,
\* monitor_virtual_orders fills at most one.
C39_OneBracketFills ==
    \A i, j \in 1..Len(orders) :
        ( /\ orders[i].order_id = orders[j].order_id
          /\ orders[i].kind = "VTP" /\ orders[j].kind = "VSL" )
        => ~(orders[i].status = "filled" /\ orders[j].status = "filled")

\* C40: the bracket made for an order is on the correct side of the entry
\* price: for a Buy the take-profit is above it and the stop-loss below it,
\* for a Sell the take-profit is below it and the stop-loss above it.
C40_BracketOnCorrectSide ==
    \A e, b \in 1..Len(orders) :
        ( /\ orders[e].kind = "entry"
          /\ orders[b].order_id = orders[e].order_id
          /\ orders[b].kind \in {"VTP", "VSL"} )
        => IF (orders[e].side = "Buy") <=> (orders[b].kind = "VTP")
           THEN orders[b].price > orders[e].price
           ELSE orders[b].price < orders[e].price

====
